---- MODULE Spec2Model ----
(***************************************************************************)
(* Blood donation API (src/app.py): the users/hospitals store, the         *)
(* register_donor, update_user_profile and create_alert handlers, and the  *)
(* donor proximity and ranking pipeline create_alert calls.                *)
(*                                                                         *)
(* Handlers that write are split at their commit: the part up to the       *)
(* commit works on the request's own session, and db.session.commit() is   *)
(* the single atomic access to the shared store, so that concurrent        *)
(* requests interleave there.  create_alert only reads and is one action.  *)
(***************************************************************************)
EXTENDS Integers, Sequences, FiniteSets, TLC

\* ---------------------------------------------------------------- bounds
MaxUsers == 2       \* registrations are offered while fewer users are stored
NProcs   == 2       \* requests in flight at the same time
MaxOps   == 2       \* writing requests begun in a run, the import of the
                    \* seeded directory counting as one
SeedLen  == 54      \* size of the seeded directory (more than TopK donors)

\* ------------------------------------------------------ program constants
TopK          == 50     \* results[:50]
DefaultRadius == 10     \* data.get('radius_km', 10)
NULL          == -1     \* SQL NULL in the Float columns lat and lng
None          == <<>>   \* Python None for objects (hospital, coords)

Procs == 1 .. NProcs

VARIABLES
    users,      \* table users: sequence of rows, row i has id i
    hospitals,  \* table hospitals: function id -> row
    pending,    \* per request slot: the session of a request before commit
    nops,       \* number of writing requests begun (1 for a seeded directory)
    alerts,     \* the create_alert requests and filters this deployment meets
    last        \* the latest step: the request, the response it sent (status 0
                \* while the request waits for its commit), what it touched

vars == <<users, hospitals, pending, nops, alerts, last>>

Min(a, b) == IF a <= b THEN a ELSE b
Abs(a) == IF a < 0 THEN 0 - a ELSE a
Truthy(v) == v # ""

\* ------------------------------------------------------------ the models
User(id, name, phone, email, password, role, address, lat, lng, blood_type, last_donation) ==
    [id |-> id, name |-> name, phone |-> phone, email |-> email,
     password |-> password, role |-> role, address |-> address,
     lat |-> lat, lng |-> lng, blood_type |-> blood_type,
     last_donation |-> last_donation]

\* User.to_dict: every column but the password; a NULL date stays None ("")
to_dict(u) ==
    [id |-> u.id, name |-> u.name, phone |-> u.phone, email |-> u.email,
     role |-> u.role, address |-> u.address, lat |-> u.lat, lng |-> u.lng,
     blood_type |-> u.blood_type, last_donation |-> u.last_donation]

hospital_to_dict(h) == [id |-> h.id, name |-> h.name, lat |-> h.lat, lng |-> h.lng]

\* ------------------------------------------------- external collaborators
\* geocoding_free.geocode_address: coordinates of an address, None when the
\* address cannot be resolved
geocode_address(address) ==
    CASE address = "a1" -> <<0, 1>>
      [] address = "a2" -> <<0, 3>>
      [] OTHER          -> None

\* dateutil parse(date_str).date(): the date, or "ValueError"
parse_date(date_str) ==
    CASE date_str = "2020-01-01"   -> "2020-01-01"
      [] date_str = "01 Jan 2020"  -> "2020-01-01"
      [] date_str = "2026-10-01"   -> "2026-10-01"
      [] OTHER                     -> "ValueError"

\* great-circle distance, on a grid where one step is one kilometre
distance_km(a, b) == Abs(a.lat - b.lat) + Abs(a.lng - b.lng)

\* suitability score: closer is better, a donation inside the cooldown
\* window scores lower than the same distance outside it
ai_score(user, distance) ==
    20 - distance - (IF user.last_donation = "2026-10-01" THEN 2 ELSE 0)

\* ranking rule: score descending, then distance ascending, then id
RankedBefore(r, s) ==
    \/ r.ai_score > s.ai_score
    \/ r.ai_score = s.ai_score /\ r.distance < s.distance
    \/ r.ai_score = s.ai_score /\ r.distance = s.distance
         /\ r.user.id < s.user.id

Scored(hospital, u) ==
    LET d == distance_km(hospital, u)
    IN  [user |-> u, distance |-> d, ai_score |-> ai_score(u, d)]

Reverse(s) == [i \in 1 .. Len(s) |-> s[Len(s) + 1 - i]]

\* ai_filter.filter_nearby_users(hospital, users, radius_km), one outcome per
\* implementation the import can find:
\*   "spec"      the pipeline of the design: distance filter, scorer, ranker
\*   "missing"   no ai_filter module: the import raises ImportError
\*   "raises"    the filter raises
\*   "malformed" the filter returns records without the 'user' key
\*   "junk"      a filter that ignores the radius and the ranking rule
filter_nearby_users(hospital, candidates, radius_km, impl) ==
    CASE impl = "missing" -> [kind |-> "ImportError", detail |-> "No module named ai_filter"]
      [] impl = "raises"  -> [kind |-> "Exception", detail |-> "ZeroDivisionError in ai_filter.py line 12"]
      [] impl = "malformed" ->
            [kind |-> "ok",
             results |-> [i \in 1 .. Len(candidates) + 1 |-> [distance |-> 0, ai_score |-> 0]]]
      [] impl = "junk" ->
            [kind |-> "ok",
             results |-> LET all == [i \in 1 .. Len(candidates) |-> Scored(hospital, candidates[i])]
                         IN  Reverse(all) \o Reverse(all)]
      [] OTHER ->
            IF hospital = None
            THEN [kind |-> "Exception", detail |-> "AttributeError: NoneType has no attribute lat"]
            ELSE LET all == [i \in 1 .. Len(candidates) |-> Scored(hospital, candidates[i])]
                     near == IF radius_km <= 0 THEN <<>>
                             ELSE SelectSeq(all, LAMBDA r : r.distance <= radius_km)
                 IN  [kind |-> "ok", results |-> SortSeq(near, RankedBefore)]

\* ------------------------------------------------------------ create_alert
required_alert_fields == {"hospital_id", "blood_type"}

MissingAlertFields(data) == ~ (\A k \in required_alert_fields : k \in DOMAIN data)

\* Hospital.query.get(id)
HospitalGet(hs, id) == IF id \in DOMAIN hs THEN hs[id] ELSE None

HospitalMissing_skipped(hospital) == FALSE
\* if not hospital
HospitalMissing(hospital) == hospital = None

RadiusKm_ignored(data) == DefaultRadius
\* data.get('radius_km', 10)
RadiusKm(data) == IF "radius_km" \in DOMAIN data THEN data.radius_km ELSE DefaultRadius

SuitableUsers_anyType(us, blood_type_needed) ==
    SelectSeq(us, LAMBDA u : u.role = "donor" /\ u.lat # NULL /\ u.lng # NULL)
\* User.query.filter(role == 'donor', lat IS NOT NULL, lng IS NOT NULL,
\*                   blood_type == blood_type_needed).all()
SuitableUsers(us, blood_type_needed) ==
    SelectSeq(us, LAMBDA u : /\ u.role = "donor"
                             /\ u.lat # NULL
                             /\ u.lng # NULL
                             /\ u.blood_type = blood_type_needed)

Top50_all(results) == results
Top50_tail(results) == SubSeq(results, Len(results) - Min(TopK, Len(results)) + 1, Len(results))
\* results[:50]
Top50(results) == SubSeq(results, 1, Min(TopK, Len(results)))

\* the record shape the response comprehension reads: r['user'],
\* r['distance'], r['ai_score']; a missing key raises KeyError
WellFormed(results) ==
    \A i \in 1 .. Len(results) : {"user", "distance", "ai_score"} \subseteq DOMAIN results[i]

AlertEntry(r) == [user |-> to_dict(r.user), distance_km |-> r.distance, ai_score |-> r.ai_score]

AlertBody(hospital, blood_type_needed, radius_km, results) ==
    LET top_50_users == Top50(results)
    IN  [hospital |-> hospital_to_dict(hospital),
         blood_type_needed |-> blood_type_needed,
         radius_km |-> radius_km,
         total_matched |-> Len(results),
         top_50_users |-> [i \in 1 .. Len(top_50_users) |-> AlertEntry(top_50_users[i])]]

ImportErrorBody(e) == [error |-> "Khong tim thay file ai_filter.py hoac file co loi."]

\* except Exception as e: the exception is printed, the body is a fixed text
InternalErrorBody(e) == [error |-> "Loi may chu noi bo khi loc nguoi dung"]

SessionAfterAlert_marked(us, suitable_users) ==
    [i \in 1 .. Len(us) |->
        IF \E j \in 1 .. Len(suitable_users) : suitable_users[j].id = us[i].id
        THEN [us[i] EXCEPT !.last_donation = "2026-10-01"] ELSE us[i]]
\* the handler never adds to nor commits its session: the rows it loaded
\* are released with the request and the table is what it was
SessionAfterAlert(us, suitable_users) == us

\* the handler: status, body, the stores it touched (trace), the filter's
\* full result and the users table it leaves
create_alert(data, hs, us, impl) ==
    IF MissingAlertFields(data)
    THEN [status |-> 400, body |-> [error |-> "Thieu hospital_id hoac blood_type"],
          trace |-> <<>>, results |-> <<>>, users |-> us]
    ELSE
    LET hospital == HospitalGet(hs, data.hospital_id) IN
    IF HospitalMissing(hospital)
    THEN [status |-> 404, body |-> [error |-> "Khong tim thay benh vien"],
          trace |-> <<"hospital_get">>, results |-> <<>>, users |-> us]
    ELSE
    LET blood_type_needed == data.blood_type
        radius_km == RadiusKm(data)
        suitable_users == SuitableUsers(us, blood_type_needed)
        f == filter_nearby_users(hospital, suitable_users, radius_km, impl)
        after == SessionAfterAlert(us, suitable_users)
    IN  CASE f.kind = "ImportError" ->
                [status |-> 500, body |-> ImportErrorBody(f),
                 trace |-> <<"hospital_get", "user_query">>, results |-> <<>>, users |-> after]
          [] f.kind = "Exception" ->
                [status |-> 500, body |-> InternalErrorBody(f),
                 trace |-> <<"hospital_get", "user_query", "filter">>, results |-> <<>>,
                 users |-> after]
          [] OTHER ->
                IF WellFormed(f.results)
                THEN [status |-> 200,
                      body |-> AlertBody(hospital, blood_type_needed, radius_km, f.results),
                      trace |-> <<"hospital_get", "user_query", "filter">>,
                      results |-> f.results, users |-> after]
                ELSE [status |-> 500,
                      body |-> InternalErrorBody([kind |-> "Exception", detail |-> "KeyError: 'user'"]),
                      trace |-> <<"hospital_get", "user_query", "filter">>,
                      results |-> <<>>, users |-> after]

\* ---------------------------------------------------------- register_donor
required_fields == {"fullName", "email", "phone", "password", "address", "bloodType"}

\* not all(field in data and data[field] for field in required_fields)
MissingRegisterFields(data) ==
    ~ (\A f \in required_fields : f \in DOMAIN data /\ Truthy(data[f]))

\* User.query.filter((email == data.email) | (phone == data.phone)).first()
DuplicateUser(us, data) ==
    \E i \in 1 .. Len(us) : us[i].email = data.email \/ us[i].phone = data.phone

\* lat, lng = None, None; try: coords = geocode_address(address) ...
\* except Exception: the coordinates stay None
RegisterCoords(address, graise) ==
    IF graise THEN <<NULL, NULL>>
    ELSE LET coords == geocode_address(address)
         IN  IF coords # None THEN coords ELSE <<NULL, NULL>>

\* the handler up to db.session.add: a response, or the new row
register_donor(data, us, graise) ==
    IF MissingRegisterFields(data)
    THEN [done |-> TRUE, status |-> 400, body |-> [error |-> "Thieu thong tin bat buoc"]]
    ELSE IF DuplicateUser(us, data)
    THEN [done |-> TRUE, status |-> 409, body |-> [error |-> "Email hoac so dien thoai da ton tai"]]
    ELSE
    LET address == data.address
        coords == RegisterCoords(address, graise)
        has_date == "lastDonationDate" \in DOMAIN data /\ Truthy(data.lastDonationDate)
        last_donation_date == IF has_date THEN parse_date(data.lastDonationDate) ELSE ""
    IN  IF last_donation_date = "ValueError"
        THEN [done |-> TRUE, status |-> 400, body |-> [error |-> "Dinh dang ngay khong hop le"]]
        ELSE [done |-> FALSE,
              new_user |-> User(0, data.fullName, data.phone, data.email, data.password,
                                "donor", address, coords[1], coords[2], data.bloodType,
                                last_donation_date)]

UniqueViolation_emailOnly(us, row) ==
    \E i \in 1 .. Len(us) : us[i].id # row.id /\ us[i].email = row.email
\* phone and email are unique=True: a commit that would store a second row
\* with the phone or the email of another row raises IntegrityError
UniqueViolation(us, row) ==
    \E i \in 1 .. Len(us) :
        us[i].id # row.id /\ (us[i].phone = row.phone \/ us[i].email = row.email)

RegisterOkBody(u) ==
    IF u.lat = NULL \/ u.lng = NULL
    THEN [message |-> "Dang ky thanh cong", warning |-> "Khong the xac dinh vi tri",
          user |-> to_dict(u)]
    ELSE [message |-> "Dang ky thanh cong", user |-> to_dict(u)]

\* ----------------------------------------------------- update_user_profile
allowed_fields == <<"name", "phone", "address", "blood_type", "last_donation">>

\* the setattr loop over name, phone, address, blood_type
SetPlain(user, data) ==
    [f \in DOMAIN user |->
        IF f \in {"name", "phone", "address", "blood_type"} /\ f \in DOMAIN data
        THEN data[f] ELSE user[f]]

\* the last_donation branch of the loop: the date, None for an empty string,
\* "ValueError" when the string does not parse
NewLastDonation(user, data) ==
    IF "last_donation" \in DOMAIN data
    THEN IF Truthy(data.last_donation) THEN parse_date(data.last_donation) ELSE ""
    ELSE user.last_donation

\* if field == 'address' and data[field] != old_address
GeocodingNeeded(data, old_address) ==
    "address" \in DOMAIN data /\ data.address # old_address

\* if geocoding_needed and user.address: try geocode_address ...
\* except Exception: only a print
UpdateCoords(user, geocoding_needed, graise) ==
    IF geocoding_needed /\ Truthy(user.address)
    THEN IF graise THEN <<user.lat, user.lng>>
         ELSE LET coords == geocode_address(user.address)
              IN  IF coords # None THEN coords ELSE <<NULL, NULL>>
    ELSE <<user.lat, user.lng>>

\* the handler up to db.session.commit: a response, or the loaded row and
\* the row as the session holds it
update_user_profile(user_id, data, us, graise) ==
    IF user_id \notin 1 .. Len(us)
    THEN [done |-> TRUE, status |-> 404, body |-> [error |-> "Not Found"]]
    ELSE
    LET user == us[user_id]
        old_address == user.address
        date == NewLastDonation(user, data)
        set == [SetPlain(user, data) EXCEPT !.last_donation = date]
        geocoding_needed == GeocodingNeeded(data, old_address)
        coords == UpdateCoords(set, geocoding_needed, graise)
    IN  IF date = "ValueError"
        THEN [done |-> TRUE, status |-> 400, body |-> [error |-> "Dinh dang ngay khong hop le"]]
        ELSE [done |-> FALSE, loaded |-> user,
              row |-> [set EXCEPT !.lat = coords[1], !.lng = coords[2]],
              geocoding_needed |-> geocoding_needed]

\* the UPDATE the commit flushes: the columns whose value differs from the
\* loaded one, written over the row as it is stored now
Flushed(cur, loaded, row) ==
    [f \in DOMAIN cur |-> IF row[f] # loaded[f] THEN row[f] ELSE cur[f]]

\* ------------------------------------------------------------------ inputs
Reg(e, p, a, b) ==
    [fullName |-> "n1", email |-> e, phone |-> p, password |-> "pw",
     address |-> a, bloodType |-> b]

\* a request body and whether the geocoder raises while serving it
RegisterInputs ==
    { <<Reg("e1", "p1", "a1", "A"), FALSE>>,
      <<Reg("e1", "p1", "a1", "A"), TRUE>>,
      <<Reg("e2", "p2", "a3", "A") @@ [lastDonationDate |-> "2026-10-01"], FALSE>>,
      <<Reg("e2", "p1", "a2", "B") @@ [lastDonationDate |-> "01 Jan 2020"], FALSE>>,
      <<Reg("e2", "p2", "", "A"), FALSE>>,
      <<[fullName |-> "n1", email |-> "e2", phone |-> "p2", password |-> "pw",
         address |-> "a1"], FALSE>>,
      <<Reg("e2", "p2", "a2", "A") @@ [lastDonationDate |-> "31-31-31"], FALSE>> }

UpdateInputs ==
    { <<[address |-> "a2"], FALSE>>,
      <<[address |-> "a2"], TRUE>>,
      <<[address |-> "a3"], FALSE>>,
      <<[address |-> ""], FALSE>>,
      <<[name |-> "n2", phone |-> "sp5"], FALSE>>,
      <<[phone |-> "p2", last_donation |-> "31-31-31"], FALSE>>,
      <<[blood_type |-> "A", last_donation |-> "2026-10-01"], FALSE>> }

\* ids 1 .. MaxUsers exist in the seeded store; in a store built by
\* registrations the larger ones are not there yet
UserIds == 1 .. MaxUsers

\* a request body and the ai_filter implementation the import finds
SpecAlertInputs ==
    { <<[hospital_id |-> 1, blood_type |-> "A"], "spec">>,
      <<[hospital_id |-> 1, blood_type |-> "A", radius_km |-> 1], "spec">>,
      <<[hospital_id |-> 1, blood_type |-> "A", radius_km |-> 0], "spec">>,
      <<[hospital_id |-> 1, blood_type |-> "B", radius_km |-> 2], "spec">>,
      <<[hospital_id |-> 1, blood_type |-> ""], "spec">>,
      <<[hospital_id |-> 2, blood_type |-> "A"], "spec">>,
      <<[hospital_id |-> 1], "spec">>,
      <<[blood_type |-> "A", radius_km |-> 1], "spec">>,
      <<[hospital_id |-> 1, blood_type |-> "A"], "missing">>,
      <<[hospital_id |-> 1, blood_type |-> "A"], "raises">>,
      <<[hospital_id |-> 1, blood_type |-> "A", radius_km |-> 2], "malformed">> }

AnyAlertInputs ==
    SpecAlertInputs \cup
    { <<[hospital_id |-> 1, blood_type |-> "A"], "junk">>,
      <<[hospital_id |-> 1, blood_type |-> "A", radius_km |-> 1], "junk">> }

\* ------------------------------------------------------------ the stores
\* the seeded directory: an admin account, a donor without coordinates, a
\* donor of another blood type, and more than TopK donors of type A
SeedUser(i) ==
    User(i, "seed", "sp" \o ToString(i), "se" \o ToString(i), "pw",
         IF i = 1 THEN "admin" ELSE "donor",
         "a1",
         IF i = 2 THEN NULL ELSE i % 3,
         IF i = 2 THEN NULL ELSE i % 2,
         IF i = 3 THEN "B" ELSE "A",
         IF i % 4 = 0 THEN "2026-10-01" ELSE "")

Seed == [i \in 1 .. SeedLen |-> SeedUser(i)]

SeedHospitals == [i \in {1} |-> [id |-> 1, name |-> "h1", lat |-> 0, lng |-> 0]]

Idle == [kind |-> "idle"]

NoInfo == [x \in {} |-> 0]

Last(op, req, status, body, info) ==
    [op |-> op, req |-> req, status |-> status, body |-> body, info |-> info]

InitStore ==
    /\ users \in {<<>>, Seed}
    /\ hospitals = SeedHospitals
    /\ pending = [p \in Procs |-> Idle]
    /\ nops = IF users = <<>> THEN 0 ELSE 1
    /\ last = Last("none", NoInfo, 0, NoInfo, NoInfo)

Init == InitStore /\ alerts = SpecAlertInputs

InitAnyFilter == InitStore /\ alerts = AnyAlertInputs

\* ---------------------------------------------------------------- actions
\* a new request is served by the first free slot (slots are interchangeable);
\* 0 when every slot is busy
FirstIdle ==
    IF \E p \in Procs : pending[p] = Idle
    THEN CHOOSE p \in Procs : pending[p] = Idle /\ \A q \in Procs : pending[q] = Idle => p <= q
    ELSE 0

CreateAlert(data, impl) ==
    LET r == create_alert(data, hospitals, users, impl)
    IN  /\ users' = r.users
        /\ last' = Last("alert", data, r.status, r.body,
                        [impl |-> impl, trace |-> r.trace, results |-> r.results])
        /\ UNCHANGED <<hospitals, pending, nops, alerts>>

RegisterDonor(p, data, graise) ==
    /\ p = FirstIdle
    /\ Len(users) < MaxUsers
    /\ nops < MaxOps
    /\ LET r == register_donor(data, users, graise)
       IN  IF r.done
           THEN /\ last' = Last("register", data, r.status, r.body, NoInfo)
                /\ UNCHANGED <<pending, nops>>
           ELSE /\ pending' = [pending EXCEPT ![p] =
                                  [kind |-> "register", req |-> data, new_user |-> r.new_user]]
                /\ nops' = nops + 1
                /\ last' = Last("register", data, 0, NoInfo, NoInfo)
    /\ UNCHANGED <<users, hospitals, alerts>>

\* db.session.add(new_user); db.session.commit() / rollback
RegisterCommit(p) ==
    /\ pending[p].kind = "register"
    /\ LET new_user == [pending[p].new_user EXCEPT !.id = Len(users) + 1]
       IN  IF UniqueViolation(users, new_user)
           THEN /\ users' = users
                /\ last' = Last("register", pending[p].req, 500,
                                [error |-> "Loi may chu noi bo khi dang ky"], NoInfo)
           ELSE /\ users' = Append(users, new_user)
                /\ last' = Last("register", pending[p].req, 201,
                                RegisterOkBody(new_user), NoInfo)
    /\ pending' = [pending EXCEPT ![p] = Idle]
    /\ UNCHANGED <<hospitals, nops, alerts>>

UpdateUserProfile(p, user_id, data, graise) ==
    /\ p = FirstIdle
    /\ nops < MaxOps
    /\ LET r == update_user_profile(user_id, data, users, graise)
       IN  IF r.done
           THEN /\ last' = Last("update", data, r.status, r.body, [id |-> user_id])
                /\ UNCHANGED <<pending, nops>>
           ELSE /\ pending' = [pending EXCEPT ![p] =
                                  [kind |-> "update", req |-> data, id |-> user_id,
                                   loaded |-> r.loaded, row |-> r.row,
                                   geocoding_needed |-> r.geocoding_needed]]
                /\ nops' = nops + 1
                /\ last' = Last("update", data, 0, NoInfo, [id |-> user_id])
    /\ UNCHANGED <<users, hospitals, alerts>>

\* db.session.commit() / rollback of the update
UpdateCommit(p) ==
    /\ pending[p].kind = "update"
    /\ LET id == pending[p].id
           merged == Flushed(users[id], pending[p].loaded, pending[p].row)
           info == [id |-> id, geocoding_needed |-> pending[p].geocoding_needed]
       IN  IF UniqueViolation(users, merged)
           THEN /\ users' = users
                /\ last' = Last("update", pending[p].req, 500,
                                [error |-> "Loi may chu noi bo khi cap nhat"], info)
           ELSE /\ users' = [users EXCEPT ![id] = merged]
                /\ last' = Last("update", pending[p].req, 200,
                                [message |-> "Cap nhat thong tin thanh cong",
                                 user |-> to_dict(merged)], info)
    /\ pending' = [pending EXCEPT ![p] = Idle]
    /\ UNCHANGED <<hospitals, nops, alerts>>

Next ==
    \/ \E a \in alerts : CreateAlert(a[1], a[2])
    \/ \E p \in Procs, r \in RegisterInputs : RegisterDonor(p, r[1], r[2])
    \/ \E p \in Procs : RegisterCommit(p)
    \/ \E p \in Procs, user_id \in UserIds, u \in UpdateInputs :
           UpdateUserProfile(p, user_id, u[1], u[2])
    \/ \E p \in Procs : UpdateCommit(p)

Spec == Init /\ [][Next]_vars

SpecAnyFilter == InitAnyFilter /\ [][Next]_vars

\* ------------------------------------------------------------- properties
IsAlert == last.op = "alert"

AlertOK == IsAlert /\ last.status = 200

\* the radius the request asks for
RequestedRadius == IF "radius_km" \in DOMAIN last.req THEN last.req.radius_km ELSE 10

\* r ranks strictly better than t: higher score, or equal score and nearer
Better(r, t) ==
    \/ r.ai_score > t.ai_score
    \/ r.ai_score = t.ai_score /\ r.distance_km < t.distance_km

\* C1: in every successful create_alert response, whatever list the filter
\* returned, top_50_users has at most 50 entries, is the prefix of the
\* filter's result, and total_matched is the full length of that result (so
\* it is at least the length of the shortlist).
C1_TruncationBound ==
    AlertOK =>
        LET top == last.body.top_50_users
            results == last.info.results
        IN  /\ Len(top) <= 50
            /\ last.body.total_matched = Len(results)
            /\ last.body.total_matched >= Len(top)
            /\ \A i \in 1 .. Len(top) : top[i] = AlertEntry(results[i])

C1_Witness ==
    /\ AlertOK
    /\ last.info.impl = "junk"
    /\ last.body.total_matched > 50
    /\ Len(last.body.top_50_users) = 50

\* C2: a create_alert request with hospital_id or blood_type missing or empty
\* ends in the 400 outcome, before any store access, without running the
\* filter and without a match list.
C2_MissingOrEmptyRejected ==
    (/\ IsAlert
     /\ \/ MissingAlertFields(last.req)
        \/ "blood_type" \in DOMAIN last.req /\ last.req.blood_type = "")
    => /\ last.status = 400
       /\ last.info.trace = <<>>
       /\ "top_50_users" \notin DOMAIN last.body

\* C3: a create_alert request whose hospital_id is not a stored hospital ends
\* in the 404 outcome: neither the donor query nor the filter runs and the
\* response has no top_50_users field.
C3_HospitalNotFound ==
    (/\ IsAlert
     /\ ~ MissingAlertFields(last.req)
     /\ last.req.hospital_id \notin DOMAIN hospitals)
    => /\ last.status = 404
       /\ last.info.trace = <<"hospital_get">>
       /\ DOMAIN last.body = {"error"}

C3_Witness ==
    /\ IsAlert
    /\ last.status = 404
    /\ last.req.hospital_id = 2
    /\ \E i \in 1 .. Len(users) : users[i].blood_type = last.req.blood_type /\ users[i].lat # NULL

\* C4: in every successful create_alert response every shortlisted user is
\* a stored user with role "donor", with lat and lng present, and with the
\* blood type of the request.
C4_OnlyEligibleDonors ==
    AlertOK =>
        \A i \in 1 .. Len(last.body.top_50_users) :
            LET d == last.body.top_50_users[i].user
            IN  /\ d.id \in 1 .. Len(users)
                /\ d = to_dict(users[d.id])
                /\ d.role = "donor"
                /\ d.lat # NULL
                /\ d.lng # NULL
                /\ d.blood_type = last.req.blood_type

C4_Witness ==
    /\ AlertOK
    /\ Len(last.body.top_50_users) > 0
    /\ \E i \in 1 .. Len(users) : users[i].role # "donor"
    /\ \E i \in 1 .. Len(users) : users[i].role = "donor" /\ users[i].lat = NULL
    /\ \E i \in 1 .. Len(users) :
          /\ users[i].role = "donor"
          /\ users[i].lat # NULL
          /\ users[i].blood_type # last.req.blood_type
          /\ distance_km(hospitals[last.req.hospital_id], users[i]) <= RequestedRadius

\* C5: in every successful create_alert response every entry's distance_km
\* is at most the radius_km of the request, 10 when the request has none.
C5_RadiusInvariant ==
    AlertOK =>
        \A i \in 1 .. Len(last.body.top_50_users) :
            last.body.top_50_users[i].distance_km <= RequestedRadius

C5_Witness ==
    /\ AlertOK
    /\ "radius_km" \in DOMAIN last.req
    /\ Len(last.body.top_50_users) > 0
    /\ \E i \in 1 .. Len(users) :
          /\ users[i].role = "donor"
          /\ users[i].lat # NULL
          /\ users[i].blood_type = last.req.blood_type
          /\ distance_km(hospitals[last.req.hospital_id], users[i]) > last.req.radius_km

\* C6: in every successful create_alert response the shortlist is
\* non-increasing in score and, among equal scores, non-decreasing in
\* distance, and no matched donor left out of it ranks better than a donor
\* in it.
C6_RankOrdering ==
    AlertOK =>
        LET top == last.body.top_50_users
            results == last.info.results
        IN  /\ \A i \in 1 .. Len(top) : \A j \in i + 1 .. Len(top) : ~ Better(top[j], top[i])
            /\ \A k \in 1 .. Len(results) :
                  \/ \E i \in 1 .. Len(top) : top[i] = AlertEntry(results[k])
                  \/ \A i \in 1 .. Len(top) : ~ Better(AlertEntry(results[k]), top[i])

C6_Witness ==
    /\ AlertOK
    /\ last.body.total_matched > Len(last.body.top_50_users)
    /\ \E i \in 1 .. Len(last.body.top_50_users) - 1 :
          LET a == last.body.top_50_users[i]
              b == last.body.top_50_users[i + 1]
          IN  a.ai_score = b.ai_score /\ a.distance_km < b.distance_km
    /\ \E i \in 1 .. Len(last.body.top_50_users) - 1 :
          last.body.top_50_users[i].ai_score > last.body.top_50_users[i + 1].ai_score

\* error texts that tell the caller what failed inside the server: the
\* text of an exception, or the name and state of an internal module file
FaultDetails ==
    {"No module named ai_filter",
     "ZeroDivisionError in ai_filter.py line 12",
     "KeyError: 'user'",
     "Khong tim thay file ai_filter.py hoac file co loi."}

\* C7: when the filter is unavailable, raises, or returns malformed records,
\* create_alert ends in the 500 outcome and the caller receives an opaque
\* error: no match list and no internal fault details.
C7_InternalErrorOpaque ==
    (/\ IsAlert
     /\ last.info.impl \in {"missing", "raises", "malformed"}
     /\ ~ MissingAlertFields(last.req)
     /\ last.req.hospital_id \in DOMAIN hospitals)
    => /\ last.status = 500
       /\ DOMAIN last.body = {"error"}
       /\ last.body.error \notin FaultDetails
       /\ last.info.results = <<>>

\* C8: create_alert leaves the users and hospitals tables unchanged in every
\* outcome, so a repeated call meets the same store.
C8_AlertFrame ==
    [][(\E a \in alerts : CreateAlert(a[1], a[2]))
          => (users' = users /\ hospitals' = hospitals)]_vars

C8_Witness ==
    /\ AlertOK
    /\ Len(last.body.top_50_users) > 0
    /\ \E p \in Procs : pending[p] # Idle

\* C9: after a committed update that changes the address, the stored lat/lng
\* are the geocoder's result for the new address or both absent.
C9_LocationRederived ==
    (/\ last.op = "update"
     /\ last.status = 200
     /\ last.info.geocoding_needed)
    => LET u == users[last.info.id]
       IN  \/ <<u.lat, u.lng>> = geocode_address(last.req.address)
           \/ u.lat = NULL /\ u.lng = NULL

UniqueUsers ==
    \A i \in 1 .. Len(users) : \A j \in i + 1 .. Len(users) :
        users[i].email # users[j].email /\ users[i].phone # users[j].phone

\* C10: under any interleaving of register_donor and update_user_profile
\* requests no two stored users share an email or a phone, and a request
\* that ends in 409 or 500 leaves the users table unchanged.
C10_NoDuplicates ==
    []UniqueUsers /\ [][(last'.status \in {409, 500}) => users' = users]_vars

C10_Witness ==
    /\ last.op \in {"register", "update"}
    /\ last.status = 500
    /\ Len(users) > 0

====
